---- MODULE Spec2Model ----
(***************************************************************************)
(* WebSocketHelper.js: the request/response correlation layer of the       *)
(* Unium automated tests.  A module-wide EventEmitter routes every inbound *)
(* message to the listeners registered under the message's id; every       *)
(* public operation of WebSocketHelper is an async function that sends a   *)
(* message and awaits such a listener.                                     *)
(***************************************************************************)
EXTENDS Integers, Sequences, FiniteSets, TLC

(***************************************************************************)
(* JavaScript values.  Every value is a record of the same shape so that   *)
(* values of different JavaScript types can be compared.                   *)
(***************************************************************************)
Undefined == [kind |-> "undefined", s |-> "", n |-> 0, elems |-> <<>>]

Str(x) == [kind |-> "string", s |-> x, n |-> 0, elems |-> <<>>]

Num(x) == [kind |-> "number", s |-> "", n |-> x, elems |-> <<>>]

Arr(e) == [kind |-> "array", s |-> "", n |-> 0, elems |-> e]

\* ToBoolean: undefined, "" and 0 are falsy, every object (array) is truthy.
Truthy(v) ==
    CASE v.kind = "undefined" -> FALSE
      [] v.kind = "string" -> v.s # ""
      [] v.kind = "number" -> v.n # 0
      [] OTHER -> TRUE

\* a === b where b was produced by JSON.parse of an inbound message: primitives
\* compare by value, an array is a fresh object and identical to nothing else.
StrictEquals(a, b) == a.kind # "array" /\ a = b

\* The first character of the strings the model uses (s[0] of a string).
FirstChar(x) ==
    CASE x = "bound" -> "b"
      [] x = "stopped" -> "s"
      [] x = "repeating" -> "r"
      [] OTHER -> x

\* Mutant of Index0: the value is returned whole.
Index0_Whole(v) == v

\* v[0]: the first element of an array, the first character of a string,
\* undefined for a number or an empty array/string.  (undefined[0] throws and
\* is handled by the caller.)
Index0(v) ==
    CASE v.kind = "array" /\ v.elems # <<>> -> Str(Head(v.elems))
      [] v.kind = "string" /\ v.s # "" -> Str(FirstChar(v.s))
      [] OTHER -> Undefined

(***************************************************************************)
(* Constants of the module.                                                *)
(***************************************************************************)
\* Mutant of prefixEvent: event ids are not namespaced.
prefixEvent_Empty == ""

prefixEvent == "event_"

prefixQuery == "/q/"

prefixBind == "/bind/"

\* The pause of bindToEvent between two attempts, in milliseconds.
SleepMs == 1000

(***************************************************************************)
(* Bounds and input sets.                                                  *)
(***************************************************************************)
\* Subscribe attempts a polling bindToEvent makes before the model stops
\* retrying.
MaxAttempts == 3

\* Entries of the table of API calls: two calls can overlap.
Callers == {1, 2}

\* Ids the test passes to the query operations.  "event_a" is the query id
\* that equals the emitter key of the event "a".
Names == {"a", "event_a"}

\* Ids the test passes to bindToEvent / waitForEvent.
EventNames == {"a"}

\* Event names of the emitter: query ids and event-namespaced ids.
Keys == Names \cup {prefixEvent \o x : x \in EventNames}

\* The path queried or bound to.
Url == "scene"

\* Expected values a test passes to waitForRepeatResponse / waitForEvent.
Expecteds == {Str("x"), Num(0)}

\* Sampling frequency passed to repeatQuery (0: every frame).
Freqs == {Num(0)}

Reply(i, d, e) == [info |-> i, data |-> d, error |-> e]

\* Bodies of inbound messages: {info?, data?, error?}.
Replies ==
    { Reply(Str("bound"), Undefined, Undefined),
      Reply(Str("stopped"), Undefined, Undefined),
      Reply(Str("repeating"), Undefined, Undefined),
      Reply(Str("x"), Undefined, Undefined),
      Reply(Undefined, Arr(<<"ALIVE">>), Undefined),
      Reply(Undefined, Arr(<<"E1", "E2">>), Undefined),
      Reply(Undefined, Undefined, Str("err")),
      Reply(Undefined, Arr(<<"ALIVE">>), Str("err")) }

(***************************************************************************)
(* State.                                                                  *)
(***************************************************************************)
VARIABLES
    readyState,        \* this.ws: "null" before connect(), else ws.readyState
    repeatingQueries,  \* this.repeatingQueries: its keys, in insertion order
    listeners,         \* eventEmitter: event name -> listeners, oldest first
    call,              \* the API calls of the test: arguments, position, outcome
    readyState2,       \* this.ws of a second WebSocketHelper of the same module
    logged             \* the console with DEBUG=true: per id, whether a listener
                       \* logged the last received message ("off": no logging)

vars == <<readyState, repeatingQueries, listeners, call, readyState2, logged>>

\* A table entry that holds no call.
IdleCall ==
    [ op |-> "none", id |-> "", polling |-> FALSE,
      pc |-> "idle", result |-> Undefined, error |-> "",
      key |-> "", expected |-> Undefined, repeating |-> FALSE,
      waiter |-> "none", wval |-> Undefined, resolves |-> 0, rejects |-> 0,
      sent |-> <<>>, slept |-> 0, bound |-> FALSE,
      snap |-> <<>>, todo |-> <<>>, onlyAcks |-> TRUE, alone |-> TRUE ]

NewCall(op, id) == [IdleCall EXCEPT !.op = op, !.id = id, !.pc = "run"]

Init ==
    /\ readyState = "null"
    /\ repeatingQueries = <<>>
    /\ listeners = [k \in Keys |-> <<>>]
    /\ call = [c \in Callers |-> IdleCall]
    /\ readyState2 = "null"
    /\ logged = [k \in Keys |-> "off"]

\* The part of the state the operations below transform.
State == [call |-> call, listeners |-> listeners, registry |-> repeatingQueries]

InSeq(x, q) == \E i \in 1 .. Len(q) : q[i] = x

Without(q, x) == SelectSeq(q, LAMBDA y : y # x)

(***************************************************************************)
(* The correlator: waitForResponse and its listener.                       *)
(***************************************************************************)
\* A throw inside an async function: the call's promise is rejected.
Throw(st, c, err) ==
    [st EXCEPT !.call[c].pc = "failed", !.call[c].error = err]

\* Mutant of removeListener: the listener stays registered.
removeListener_Kept(ls, c) == ls

\* eventEmitter.removeListener(id, listener): each listener is the closure of
\* one waiter, so it is in the list at most once.
removeListener(ls, c) == Without(ls, c)

\* Mutant of listenerOutcome: a mismatch never rejects.
listenerOutcome_NeverRejects(expectedResponse, repeating, response) ==
    IF ~Truthy(expectedResponse) \/ StrictEquals(expectedResponse, response)
    THEN "resolve"
    ELSE "ignore"

\* What the listener of a waiter does with a response.
listenerOutcome(expectedResponse, repeating, response) ==
    IF ~Truthy(expectedResponse) \/ StrictEquals(expectedResponse, response)
    THEN "resolve"
    ELSE IF ~repeating THEN "reject" ELSE "ignore"

\* resolve(response) / reject(...) of the waiter's promise: the first call
\* settles the promise, later calls have no effect on it.
settle(w, how, response) ==
    [w EXCEPT !.resolves = IF how = "resolved" THEN @ + 1 ELSE @,
              !.rejects = IF how = "rejected" THEN @ + 1 ELSE @,
              !.waiter = IF @ = "pending" THEN how ELSE @,
              !.wval = IF w.waiter = "pending" THEN response ELSE @]

\* Mutant of listener: a rejecting listener stays registered.
listener_KeepsOnReject(st, c, response) ==
    LET w == st.call[c]
        o == listenerOutcome(w.expected, w.repeating, response)
    IN  CASE o = "resolve" ->
               [st EXCEPT !.listeners[w.key] = removeListener(@, c),
                          !.call[c] = settle(w, "resolved", response)]
          [] o = "reject" ->
               [st EXCEPT !.call[c] = settle(w, "rejected", response)]
          [] OTHER -> st

\* The listener of call c's waiter, invoked with a response.
listener(st, c, response) ==
    LET w == st.call[c]
        o == listenerOutcome(w.expected, w.repeating, response)
    IN  CASE o = "resolve" ->
               [st EXCEPT !.listeners[w.key] = removeListener(@, c),
                          !.call[c] = settle(w, "resolved", response)]
          [] o = "reject" ->
               [st EXCEPT !.listeners[w.key] = removeListener(@, c),
                          !.call[c] = settle(w, "rejected", response)]
          [] OTHER -> st

\* Mutant of waitForResponse: the new waiter is resolved on registration, as
\* by a reply kept from before.
waitForResponse_Replay(st, c, id, expectedResponse, repeating) ==
    [st EXCEPT !.listeners[id] = Append(@, c),
               !.call[c] = [@ EXCEPT !.pc = "await", !.key = id,
                                     !.expected = expectedResponse,
                                     !.repeating = repeating,
                                     !.waiter = "resolved", !.wval = Str("x"),
                                     !.resolves = 1, !.rejects = 0]]

\* waitForResponse(id, expectedResponse, repeating): a new promise whose
\* listener is registered under id.
waitForResponse(st, c, id, expectedResponse, repeating) ==
    [st EXCEPT !.listeners[id] = Append(@, c),
               !.call[c] = [@ EXCEPT !.pc = "await", !.key = id,
                                     !.expected = expectedResponse,
                                     !.repeating = repeating,
                                     !.waiter = "pending", !.wval = Undefined,
                                     !.resolves = 0, !.rejects = 0]]

\* The message send builds: repeat is set only for a freq >= 0.
wireMessage(id, url, freq) ==
    [id |-> id, q |-> url,
     repeat |-> IF freq.kind = "number" /\ freq.n >= 0 THEN freq ELSE Undefined]

\* send(ws, id, url, freq = -1, expectedResponse = undefined).  Reading
\* ws.readyState of a null ws throws; ws.send throws while the socket is
\* connecting and discards the message once it is closed.
send(st, c, id, url, freq, expectedResponse) ==
    LET f == IF freq = Undefined THEN Num(-1) ELSE freq
    IN  IF readyState = "null" THEN Throw(st, c, "TypeError")
        ELSE IF readyState = "CONNECTING" THEN Throw(st, c, "InvalidStateError")
        ELSE waitForResponse(
                 [st EXCEPT !.call[c].sent = Append(@, wireMessage(id, url, f))],
                 c, id, expectedResponse, FALSE)

(***************************************************************************)
(* The session: what each operation does after its await.                  *)
(***************************************************************************)
Done(st, c, v) == [st EXCEPT !.call[c].pc = "done", !.call[c].result = v]

\* The reason waitForResponse rejects with.
Mismatch == "does not match expected"

\* Mutant of removeQuerySend: any reply is taken for the acknowledgment.
removeQuerySend_AnyReply(st, c, id) ==
    send(st, c, id, "/socket.stop(" \o id \o ")", Num(-1), Undefined)

\* removeQuery(id) up to its await: the stop message and its one-shot waiter.
removeQuerySend(st, c, id) ==
    send(st, c, id, "/socket.stop(" \o id \o ")", Num(-1), Str("stopped"))

\* Mutant of cleanUpLoop: the key after the one taken is skipped.
cleanUpLoop_SkipsNext(st, c) ==
    LET todo == st.call[c].todo
        live == {i \in 1 .. Len(todo) : InSeq(todo[i], st.registry)}
    IN  IF live = {} THEN Done([st EXCEPT !.call[c].todo = <<>>], c, Undefined)
        ELSE LET i == CHOOSE j \in live : \A k \in live : j <= k
             IN  removeQuerySend(
                     [st EXCEPT !.call[c].id = todo[i],
                                !.call[c].todo = SubSeq(todo, i + 2, Len(todo))],
                     c, todo[i])

\* Mutant of cleanUpLoop: the stop messages of all the keys left are sent at
\* once.
cleanUpLoop_AllAtOnce(st, c) ==
    LET todo == st.call[c].todo
        live == {i \in 1 .. Len(todo) : InSeq(todo[i], st.registry)}
    IN  IF live = {} THEN Done([st EXCEPT !.call[c].todo = <<>>], c, Undefined)
        ELSE LET i == CHOOSE j \in live : \A k \in live : j <= k
                 rest == SubSeq(todo, i + 1, Len(todo))
             IN  removeQuerySend(
                     [st EXCEPT
                        !.call[c].id = todo[i],
                        !.call[c].todo = <<>>,
                        !.call[c].sent = @ \o
                           [j \in 1 .. Len(rest) |->
                              wireMessage(rest[j],
                                          "/socket.stop(" \o rest[j] \o ")",
                                          Num(-1))]],
                     c, todo[i])

\* The for-in loop of cleanUpRepeatingQueries: the next key of the enumeration
\* that is still a property of repeatingQueries, or the end of the loop.
cleanUpLoop(st, c) ==
    LET todo == st.call[c].todo
        live == {i \in 1 .. Len(todo) : InSeq(todo[i], st.registry)}
    IN  IF live = {} THEN Done([st EXCEPT !.call[c].todo = <<>>], c, Undefined)
        ELSE LET i == CHOOSE j \in live : \A k \in live : j <= k
             IN  removeQuerySend(
                     [st EXCEPT !.call[c].id = todo[i],
                                !.call[c].todo = SubSeq(todo, i + 1, Len(todo))],
                     c, todo[i])

\* The code after the await of call c, whose waiter has just settled.
resume(st, c) ==
    LET w == st.call[c]
        ok == w.waiter = "resolved"
    IN  CASE w.op = "query" ->
               IF ~ok THEN Throw(st, c, Mismatch)
               ELSE IF w.wval.kind = "undefined" THEN Throw(st, c, "TypeError")
               ELSE Done(st, c, Index0(w.wval))
          [] w.op \in {"queryAll", "waitForRepeatResponse", "waitForEvent"} ->
               IF ok THEN Done(st, c, w.wval) ELSE Throw(st, c, Mismatch)
          [] w.op = "repeatQuery" ->
               IF ok THEN Done(st, c, Undefined) ELSE Throw(st, c, Mismatch)
          [] w.op = "removeQuery" ->
               IF ok
               THEN Done([st EXCEPT !.registry = Without(@, w.id)], c, Undefined)
               ELSE Throw(st, c, Mismatch)
          [] w.op = "cleanUpRepeatingQueries" ->
               IF ok
               THEN cleanUpLoop([st EXCEPT !.registry = Without(@, w.id)], c)
               ELSE Throw(st, c, Mismatch)
          [] w.op = "bindToEvent" ->
               IF ~ok THEN Throw(st, c, Mismatch)
               ELSE IF StrictEquals(w.wval, Str("bound"))
               THEN Done([st EXCEPT !.call[c].bound = TRUE], c, Undefined)
               ELSE [st EXCEPT !.call[c].bound = FALSE, !.call[c].pc = "sleep"]
          [] OTHER -> st

\* eventEmitter.emit(id, response): every listener registered when emit is
\* called is invoked, oldest first.
RECURSIVE emit(_, _, _)
emit(st, ls, response) ==
    IF ls = <<>> THEN st
    ELSE emit(listener(st, Head(ls), response), Tail(ls), response)

\* The microtasks that follow: every call whose waiter has settled goes on.
RECURSIVE resumeAll(_, _)
resumeAll(st, ls) ==
    IF ls = <<>> THEN st
    ELSE LET c == Head(ls)
             w == st.call[c]
         IN  resumeAll(IF w.pc = "await" /\ w.waiter # "pending"
                       THEN resume(st, c) ELSE st,
                       Tail(ls))

\* Mutant of payload: a reply with an error carries no payload.
payload_ErrorBlocks(reply) ==
    IF Truthy(reply.error) THEN Undefined
    ELSE IF Truthy(reply.info) THEN reply.info ELSE reply.data

\* msg['info'] || msg['data']
payload(reply) == IF Truthy(reply.info) THEN reply.info ELSE reply.data

(***************************************************************************)
(* Actions.                                                                *)
(***************************************************************************)
\* The operations that read or write repeatingQueries.
RegistryOps == {"repeatQuery", "removeQuery", "cleanUpRepeatingQueries"}

Pending(w) == w.pc \in {"await", "sleep"}

\* Entry c of the call table can take a new call: it is the first entry that
\* holds no outstanding call.
Free(c) ==
    /\ ~Pending(call[c])
    /\ \A d \in Callers : d < c => Pending(call[d])

\* The state as call c starts: the test has read the outcomes of the calls
\* that settled before.  (alone: no other registry operation overlaps with a
\* running cleanUpRepeatingQueries.)
Begin(c, w) ==
    [State EXCEPT
       !.call = [d \in Callers |->
                   IF d = c THEN w
                   ELSE IF ~Pending(call[d]) THEN IdleCall
                   ELSE IF /\ w.op \in RegistryOps
                           /\ call[d].op = "cleanUpRepeatingQueries"
                           /\ call[d].pc = "await"
                        THEN [call[d] EXCEPT !.alone = FALSE]
                        ELSE call[d]]]

Commit(st) ==
    /\ call' = st.call
    /\ listeners' = st.listeners
    /\ repeatingQueries' = st.registry

\* async query(id, url)
query(c, id) ==
    /\ Free(c)
    /\ Commit(send(Begin(c, NewCall("query", id)), c, id,
                   prefixQuery \o Url, Undefined, Undefined))
    /\ UNCHANGED <<readyState, readyState2, logged>>

\* async queryAll(id, url)
queryAll(c, id) ==
    /\ Free(c)
    /\ Commit(send(Begin(c, NewCall("queryAll", id)), c, id,
                   prefixQuery \o Url, Undefined, Undefined))
    /\ UNCHANGED <<readyState, readyState2, logged>>

\* Mutant of addRepeatingQueryId: the id is registered without the check.
addRepeatingQueryId_NoCheck(st, c, id) ==
    [st EXCEPT !.registry = Append(@, id)]

\* addRepeatingQueryId(id): throws for an id that is already registered.
addRepeatingQueryId(st, c, id) ==
    IF InSeq(id, st.registry)
    THEN Throw(st, c, "is already being used")
    ELSE [st EXCEPT !.registry = Append(@, id)]

\* async repeatQuery(id, url, freq)
repeatQuery(c, id, freq) ==
    /\ Free(c)
    /\ LET st == addRepeatingQueryId(Begin(c, NewCall("repeatQuery", id)), c, id)
       IN  Commit(IF st.call[c].pc = "failed" THEN st
                  ELSE send(st, c, id, prefixQuery \o Url, freq, Str("repeating")))
    /\ UNCHANGED <<readyState, readyState2, logged>>

\* waitForRepeatResponse(id, expectedResponse)
waitForRepeatResponse(c, id, expectedResponse) ==
    /\ Free(c)
    /\ Commit(waitForResponse(Begin(c, NewCall("waitForRepeatResponse", id)),
                              c, id, expectedResponse, TRUE))
    /\ UNCHANGED <<readyState, readyState2, logged>>

\* async removeQuery(id)
removeQuery(c, id) ==
    /\ Free(c)
    /\ Commit(removeQuerySend(Begin(c, NewCall("removeQuery", id)), c, id))
    /\ UNCHANGED <<readyState, readyState2, logged>>

\* async cleanUpRepeatingQueries(): the keys are enumerated as the loop starts.
cleanUpRepeatingQueries(c) ==
    /\ Free(c)
    /\ LET alone == \A d \in Callers \ {c} :
                       ~(call[d].op \in RegistryOps /\ call[d].pc = "await")
           w == [NewCall("cleanUpRepeatingQueries", "") EXCEPT
                   !.snap = repeatingQueries, !.todo = repeatingQueries,
                   !.alone = alone]
       IN  Commit(cleanUpLoop(Begin(c, w), c))
    /\ UNCHANGED <<readyState, readyState2, logged>>

\* One attempt of bindToEvent: "bound" is passed in the place of freq, and
\* expectedResponse keeps its default.
bindAttempt(st, c) ==
    send(st, c, prefixEvent \o st.call[c].id, prefixBind \o Url,
         IF ~st.call[c].polling THEN Str("bound") ELSE Undefined, Undefined)

\* async bindToEvent(id, url, polling = false)
bindToEvent(c, id, polling) ==
    /\ Free(c)
    /\ Commit(bindAttempt(
           Begin(c, [NewCall("bindToEvent", id) EXCEPT !.polling = polling]), c))
    /\ UNCHANGED <<readyState, readyState2, logged>>

\* async waitForEvent(id, expectedResponse)
waitForEvent(c, id, expectedResponse) ==
    /\ Free(c)
    /\ Commit(waitForResponse(Begin(c, NewCall("waitForEvent", id)),
                              c, prefixEvent \o id, expectedResponse, TRUE))
    /\ UNCHANGED <<readyState, readyState2, logged>>

\* Mutant of loopAgain: the loop never goes round.
loopAgain_Never(polling, bound) == FALSE

\* The condition of the do-while loop of bindToEvent.
loopAgain(polling, bound) == polling /\ ~bound

\* The timer of sleep(1000) fires in bindToEvent: the loop goes round while
\* polling && !bound, else the call returns.
sleep(c) ==
    /\ call[c].pc = "sleep"
    /\ call[c].polling => Len(call[c].sent) < MaxAttempts
    /\ LET st == [State EXCEPT !.call[c].slept = @ + SleepMs]
       IN  Commit(IF loopAgain(call[c].polling, call[c].bound)
                  THEN bindAttempt(st, c)
                  ELSE Done(st, c, Undefined))
    /\ UNCHANGED <<readyState, readyState2, logged>>

\* logToConsole with logOutput set: "Received message" is logged for every
\* inbound message, "waitForResponseListener" by every listener it is emitted
\* to.
logToConsole(id) ==
    IF logged[id] = "off" THEN logged
    ELSE [logged EXCEPT ![id] = IF listeners[id] = <<>> THEN "unheard"
                                ELSE "heard"]

\* The body of the onmessage handler: the reply is emitted under its id on the
\* emitter of the module.  (onlyAcks: a running cleanUpRepeatingQueries has
\* seen no reply but the "stopped" it awaits.)
dispatch(id, reply) ==
    /\ logged' = logToConsole(id)
    /\ LET response == payload(reply)
           ls == listeners[id]
           st == [State EXCEPT
                    !.call = [d \in Callers |->
                       IF /\ call[d].op = "cleanUpRepeatingQueries"
                          /\ call[d].pc = "await"
                          /\ ~(call[d].key = id /\ response = Str("stopped"))
                       THEN [call[d] EXCEPT !.onlyAcks = FALSE]
                       ELSE call[d]]]
       IN  Commit(resumeAll(emit(st, ls, response), ls))

\* ws.onmessage of the helper under test.
onmessage(id, reply) ==
    /\ readyState = "OPEN"
    /\ dispatch(id, reply)
    /\ UNCHANGED <<readyState, readyState2>>

\* ws.onmessage of the second helper: the same handler, the same emitter.
onmessage2(id, reply) ==
    /\ readyState2 = "OPEN"
    /\ dispatch(id, reply)
    /\ UNCHANGED <<readyState, readyState2>>

\* connect(): a new WebSocket, connecting.
connect ==
    /\ readyState = "null"
    /\ readyState' = "CONNECTING"
    /\ UNCHANGED <<repeatingQueries, listeners, call, readyState2, logged>>

\* ws.onopen
onopen ==
    /\ readyState = "CONNECTING"
    /\ readyState' = "OPEN"
    /\ UNCHANGED <<repeatingQueries, listeners, call, readyState2, logged>>

\* ws.onerror: the connection failed.
onerror ==
    /\ readyState = "CONNECTING"
    /\ readyState' = "CLOSED"
    /\ UNCHANGED <<repeatingQueries, listeners, call, readyState2, logged>>

\* close()
close ==
    /\ readyState = "OPEN"
    /\ readyState' = "CLOSED"
    /\ UNCHANGED <<repeatingQueries, listeners, call, readyState2, logged>>

\* What the test and the remote do with a helper that has a socket.
Use ==
    \/ close
    \/ \E c \in Callers, id \in Names : query(c, id)
    \/ \E c \in Callers, id \in Names : queryAll(c, id)
    \/ \E c \in Callers, id \in Names, freq \in Freqs : repeatQuery(c, id, freq)
    \/ \E c \in Callers, id \in Names, e \in Expecteds :
           waitForRepeatResponse(c, id, e)
    \/ \E c \in Callers, id \in Names : removeQuery(c, id)
    \/ \E c \in Callers : cleanUpRepeatingQueries(c)
    \/ \E c \in Callers, id \in EventNames, polling \in BOOLEAN :
           bindToEvent(c, id, polling)
    \/ \E c \in Callers, id \in EventNames, e \in Expecteds :
           waitForEvent(c, id, e)
    \/ \E c \in Callers : sleep(c)
    \/ \E id \in Keys, reply \in Replies : onmessage(id, reply)

Next ==
    \/ connect
    \/ onopen
    \/ onerror
    \/ Use

Spec == Init /\ [][Next]_vars

\* The helper as connect() of the test file returns it: constructed, connected
\* and ready.
InitOpen ==
    /\ readyState = "OPEN"
    /\ repeatingQueries = <<>>
    /\ listeners = [k \in Keys |-> <<>>]
    /\ call = [c \in Callers |-> IdleCall]
    /\ readyState2 = "null"
    /\ logged = [k \in Keys |-> "off"]

SpecOpen == InitOpen /\ [][Use]_vars

\* Two helpers of the same module, both connected; the second one only
\* receives.
InitTwo ==
    /\ readyState = "OPEN"
    /\ repeatingQueries = <<>>
    /\ listeners = [k \in Keys |-> <<>>]
    /\ call = [c \in Callers |-> IdleCall]
    /\ readyState2 = "OPEN"
    /\ logged = [k \in Keys |-> "off"]

NextTwo ==
    \/ Use
    \/ \E id \in Keys, reply \in Replies : onmessage2(id, reply)

SpecTwo == InitTwo /\ [][NextTwo]_vars

\* A connected helper run with DEBUG=true: the queries and the waits, on a
\* connection that stays open.
InitDebug ==
    /\ readyState = "OPEN"
    /\ repeatingQueries = <<>>
    /\ listeners = [k \in Keys |-> <<>>]
    /\ call = [c \in Callers |-> IdleCall]
    /\ readyState2 = "null"
    /\ logged = [k \in Keys |-> "none"]

NextDebug ==
    \/ \E c \in Callers, id \in Names : query(c, id)
    \/ \E c \in Callers, id \in Names : queryAll(c, id)
    \/ \E c \in Callers, id \in Names, freq \in Freqs : repeatQuery(c, id, freq)
    \/ \E c \in Callers, id \in Names, e \in Expecteds :
           waitForRepeatResponse(c, id, e)
    \/ \E c \in Callers, id \in EventNames, e \in Expecteds :
           waitForEvent(c, id, e)
    \/ \E c \in Callers, id \in Names : removeQuery(c, id)
    \/ \E id \in Keys, reply \in Replies : onmessage(id, reply)

SpecDebug == InitDebug /\ [][NextDebug]_vars

(***************************************************************************)
(* Properties.                                                             *)
(***************************************************************************)
Settled(w) == w.waiter \in {"resolved", "rejected"}

\* The waiter of a call: what the promise of waitForResponse has become.
WaiterOf(w) ==
    [waiter |-> w.waiter, wval |-> w.wval,
     resolves |-> w.resolves, rejects |-> w.rejects]

\* Call c awaits a one-shot waiter that was given no expected value.
OneShotNoExpected(w) ==
    w.waiter = "pending" /\ ~w.repeating /\ w.expected = Undefined

\* C1: a one-shot waiter registered without an expected value is resolved by
\* the first reply dispatched for its id, with that reply's payload: resolve is
\* called once, reject never, the listener is removed in the same step, and no
\* later step resolves or rejects the settled waiter again.
C1_OneShotResolvedOnce ==
    [][\A c \in Callers :
          /\ OneShotNoExpected(call[c]) =>
                \A reply \in Replies :
                   onmessage(call[c].key, reply) =>
                      /\ WaiterOf(call'[c]) =
                            [waiter |-> "resolved", wval |-> payload(reply),
                             resolves |-> 1, rejects |-> 0]
                      /\ ~InSeq(c, listeners'[call[c].key])
          /\ (Settled(call[c]) /\ Settled(call'[c])) =>
                WaiterOf(call'[c]) = WaiterOf(call[c])]_vars

\* A query / queryAll waiter has been resolved with a two-element result.
C1_Witness ==
    \E c \in Callers :
       /\ call[c].op \in {"query", "queryAll"}
       /\ WaiterOf(call[c]) =
             [waiter |-> "resolved", wval |-> Arr(<<"E1", "E2">>),
              resolves |-> 1, rejects |-> 0]
       /\ ~InSeq(c, listeners[call[c].key])

\* Call c awaits a one-shot waiter that was given an expected value.
OneShotExpecting(w) ==
    w.waiter = "pending" /\ ~w.repeating /\ w.expected # Undefined

\* C2: a non-repeating waiter with an expected value that is dispatched a
\* reply different from it is rejected (reject called once, resolve never) and
\* deregistered in the same step, its call fails, and no later step, whatever
\* the reply, resolves or rejects the waiter again.
C2_MismatchRejectsOnce ==
    [][\A c \in Callers :
          /\ OneShotExpecting(call[c]) =>
                \A reply \in Replies :
                   (payload(reply) # call[c].expected
                      /\ onmessage(call[c].key, reply)) =>
                      /\ WaiterOf(call'[c]) =
                            [waiter |-> "rejected", wval |-> payload(reply),
                             resolves |-> 0, rejects |-> 1]
                      /\ ~InSeq(c, listeners'[call[c].key])
                      /\ call'[c].pc = "failed"
                      /\ call'[c].error = Mismatch
          /\ (call[c].waiter = "rejected" /\ Settled(call'[c])) =>
                WaiterOf(call'[c]) = WaiterOf(call[c])]_vars

\* A removeQuery or repeatQuery has been rejected by a reply that is not the
\* acknowledgment it expected.
C2_Witness ==
    \E c \in Callers :
       /\ call[c].op \in {"removeQuery", "repeatQuery"}
       /\ call[c].waiter = "rejected" /\ call[c].rejects = 1
       /\ call[c].resolves = 0
       /\ call[c].wval # call[c].expected
       /\ call[c].pc = "failed"
       /\ ~InSeq(c, listeners[call[c].key])

\* Call c awaits a repeating waiter.
Repeating(w) == w.waiter = "pending" /\ w.repeating

\* C3: a repeating waiter with expected value e stays pending and registered
\* through every reply different from e, is never rejected, and is resolved
\* with e by the reply equal to e.
C3_RepeatingWaitsForExpected ==
    [][\A c \in Callers :
          Repeating(call[c]) =>
             \A reply \in Replies :
                onmessage(call[c].key, reply) =>
                   IF payload(reply) = call[c].expected
                   THEN WaiterOf(call'[c]) =
                           [waiter |-> "resolved", wval |-> call[c].expected,
                            resolves |-> 1, rejects |-> 0]
                   ELSE /\ call'[c] = call[c]
                        /\ InSeq(c, listeners'[call[c].key])]_vars

\* C4: repeatQuery for an id that is in the registry fails with the duplicate
\* error, sends no message, registers no waiter and leaves the registry as it
\* was.
C4_DuplicateRepeatQuery ==
    [][\A c \in Callers, id \in Names, freq \in Freqs :
          (InSeq(id, repeatingQueries) /\ repeatQuery(c, id, freq)) =>
             /\ call'[c].pc = "failed"
             /\ call'[c].error = "is already being used"
             /\ call'[c].sent = <<>>
             /\ call'[c].waiter = "none"
             /\ listeners' = listeners
             /\ repeatingQueries' = repeatingQueries]_vars

\* On an open connection a repeatQuery has failed as a duplicate of a
\* registered id.
C4_Witness ==
    \E c \in Callers :
       /\ readyState = "OPEN"
       /\ call[c].op = "repeatQuery"
       /\ call[c].pc = "failed"
       /\ call[c].error = "is already being used"
       /\ InSeq(call[c].id, repeatingQueries)

\* The stop message removeQuery sends for id.
StopMessage(id) ==
    [id |-> id, q |-> "/socket.stop(" \o id \o ")", repeat |-> Undefined]

\* What a cleanUpRepeatingQueries that completes has done: one stop message
\* for each id that was registered when it was called, and an empty registry.
CleanUpEffect(w, registry) ==
    /\ w.sent = [i \in 1 .. Len(w.snap) |-> StopMessage(w.snap[i])]
    /\ registry = <<>>

\* Call c, a cleanUpRepeatingQueries, completes in this step.
CleanUpCompletes(c) ==
    /\ call'[c].op = "cleanUpRepeatingQueries"
    /\ call'[c].pc = "done"
    /\ call'[c] # call[c]

\* cleanUpRepeatingQueries called on an empty registry returns at once, sends
\* nothing and changes neither the registry nor the listeners.
CleanUpOfEmptyIsNoOp ==
    \A c \in Callers :
       (repeatingQueries = <<>> /\ cleanUpRepeatingQueries(c)) =>
          /\ call'[c].pc = "done"
          /\ call'[c].sent = <<>>
          /\ repeatingQueries' = <<>>
          /\ listeners' = listeners

C6_RemoveQueryCompletesOnStopped ==
    [][\A c \in Callers :
          (/\ call[c].op = "removeQuery"
           /\ call[c].pc = "await"
           /\ InSeq(call[c].id, repeatingQueries)
           /\ \A d \in Callers \ {c} : ~Pending(call[d])) =>
             \A reply \in Replies :
                onmessage(call[c].id, reply) =>
                   CASE payload(reply) = Str("stopped") ->
                          /\ call'[c].pc = "done"
                          /\ ~InSeq(call[c].id, repeatingQueries')
                     [] payload(reply).kind = "array" -> call'[c] = call[c]
                     [] OTHER -> TRUE]_vars

\* The subscribe message of bindToEvent(id, url).
BindMessage(id) ==
    [id |-> prefixEvent \o id, q |-> prefixBind \o Url, repeat |-> Undefined]

\* C7: bindToEvent without polling sends one subscribe message under the
\* event-namespaced id, returns normally only after the reply "bound", and is
\* rejected by any other reply.
C7_BindRejectsUnexpectedReply ==
    \A c \in Callers :
       (call[c].op = "bindToEvent" /\ ~call[c].polling
          /\ call[c].sent # <<>>) =>
          /\ call[c].sent = <<BindMessage(call[c].id)>>
          /\ Settled(call[c]) =>
                IF call[c].wval = Str("bound")
                THEN call[c].pc = "done"
                ELSE call[c].pc = "failed"

\* C8: a polling bindToEvent sends one subscribe message per attempt, pauses
\* SleepMs after every reply that is not "bound" and then tries again, and
\* completes only on the reply "bound": after k other replies it has sent
\* exactly k + 1 messages.
C8_PollingBindRetriesUntilBound ==
    [][\A c \in Callers :
          LET w == call[c]
              v == call'[c]
          IN  /\ (v.op = "bindToEvent" /\ v.polling /\ v.sent # <<>>) =>
                    /\ v.sent = [i \in 1 .. Len(v.sent) |-> BindMessage(v.id)]
                    /\ v.slept = SleepMs * (Len(v.sent) - 1)
                    /\ v.pc = "done" => v.bound /\ v.wval = Str("bound")
                    /\ v.pc # "failed"
              /\ (w.op = "bindToEvent" /\ w.polling /\ w.pc = "await") =>
                    \A reply \in Replies :
                       onmessage(w.key, reply) =>
                          /\ v.sent = w.sent
                          /\ v.pc = IF payload(reply) = Str("bound")
                                    THEN "done" ELSE "sleep"
              /\ (w.op = "bindToEvent" /\ w.polling /\ w.pc = "sleep"
                    /\ v # w) =>
                    /\ v.pc = "await"
                    /\ Len(v.sent) = Len(w.sent) + 1]_vars

\* The operations that wait under the query id / under the event id.
QueryOps ==
    {"query", "queryAll", "repeatQuery", "waitForRepeatResponse",
     "removeQuery", "cleanUpRepeatingQueries"}

EventOps == {"bindToEvent", "waitForEvent"}

\* What a reply can change of a call: its waiter, its position, its outcome.
Progress(w) ==
    [waiter |-> WaiterOf(w), pc |-> w.pc, result |-> w.result,
     error |-> w.error, key |-> w.key]

\* C9: for a name n used both as a query id and as an event id, a reply to the
\* query id n leaves every bindToEvent(n) / waitForEvent(n) call as it is, and
\* a reply to the event id of n leaves every query operation on n as it is.
C9_QueryAndEventNamespaces ==
    [][\A n \in Names \cap EventNames, c \in Callers :
          /\ (call[c].op \in EventOps /\ call[c].id = n
                /\ call[c].waiter = "pending") =>
                /\ call[c].key # n
                /\ \A reply \in Replies :
                      onmessage(n, reply) =>
                         /\ Progress(call'[c]) = Progress(call[c])
                         /\ InSeq(c, listeners'[call[c].key])
          /\ (call[c].op \in QueryOps /\ call[c].id = n
                /\ call[c].waiter = "pending") =>
                /\ call[c].key # prefixEvent \o n
                /\ \A reply \in Replies :
                      onmessage(prefixEvent \o n, reply) =>
                         /\ Progress(call'[c]) = Progress(call[c])
                         /\ InSeq(c, listeners'[call[c].key])]_vars

\* A query on "a" has been resolved by a reply while a waitForEvent on the
\* event "a" with a falsy expected value, which any reply would resolve, is
\* still pending.
C9_Witness ==
    \E c, d \in Callers :
       /\ call[c].op = "waitForEvent" /\ call[c].id = "a"
       /\ call[c].waiter = "pending" /\ call[c].expected = Num(0)
       /\ call[d].op \in {"query", "queryAll"} /\ call[d].id = "a"
       /\ call[d].waiter = "resolved"

\* A reply that carries a non-empty data sequence and no info.
DataReply(reply) ==
    /\ ~Truthy(reply.info)
    /\ reply.data.kind = "array"
    /\ reply.data.elems # <<>>

\* C10: the first reply to the id of a query / queryAll call, carrying the
\* non-empty data sequence d, completes query with the first element of d and
\* queryAll with d itself.
C10_QueryFirstQueryAllWhole ==
    [][\A c \in Callers :
          (call[c].op \in {"query", "queryAll"} /\ call[c].pc = "await") =>
             \A reply \in {r \in Replies : DataReply(r)} :
                onmessage(call[c].key, reply) =>
                   /\ call'[c].pc = "done"
                   /\ call'[c].result =
                         IF call[c].op = "query"
                         THEN Str(reply.data.elems[1])
                         ELSE reply.data]_vars

\* A query has completed with the first element of a two-element reply.
C10_Witness ==
    \E c \in Callers :
       /\ call[c].op = "query"
       /\ call[c].pc = "done"
       /\ call[c].wval = Arr(<<"E1", "E2">>)
       /\ call[c].result = Str("E1")

\* A polling bindToEvent has completed on its third attempt.
C8_Witness ==
    \E c \in Callers :
       /\ call[c].op = "bindToEvent" /\ call[c].polling
       /\ call[c].pc = "done" /\ call[c].bound
       /\ Len(call[c].sent) = 3
       /\ call[c].slept = 2 * SleepMs

\* The reply without its error field.
WithoutError(reply) == [reply EXCEPT !.error = Undefined]

\* C11: a reply whose error field is populated is dispatched exactly as the
\* same reply without the error field: the step it causes is the step the
\* reply without the error causes, and it rejects a waiter only if that reply
\* does.
C11_ErrorDoesNotBlockDelivery ==
    [][\A id \in Keys, reply \in Replies :
          (Truthy(reply.error) /\ onmessage(id, reply)) =>
             /\ payload(reply) = payload(WithoutError(reply))
             /\ onmessage(id, WithoutError(reply))
             /\ \A c \in Callers :
                   call'[c].rejects > call[c].rejects =>
                      listenerOutcome(call[c].expected, call[c].repeating,
                                      payload(WithoutError(reply))) = "reject"]_vars

\* A queryAll has been resolved, with undefined, by a reply that carried
\* nothing but an error.
C11_Witness ==
    \E c \in Callers :
       /\ call[c].op = "queryAll"
       /\ call[c].pc = "done"
       /\ WaiterOf(call[c]) =
             [waiter |-> "resolved", wval |-> Undefined,
              resolves |-> 1, rejects |-> 0]

\* C12: a reply dispatched for an id that has no listener changes nothing; a
\* waiter is pending and unsettled as it is registered, whatever was
\* dispatched for its id before, and only a reply dispatched for its id
\* afterwards settles it.
C12_UnclaimedReplyDropped ==
    [][/\ \A id \in Keys :
             (listeners[id] = <<>> /\ \E reply \in Replies : onmessage(id, reply)) =>
                /\ listeners' = listeners
                /\ repeatingQueries' = repeatingQueries
                /\ \A c \in Callers : Progress(call'[c]) = Progress(call[c])
       /\ \A c \in Callers :
             /\ \A k \in Keys :
                   (~InSeq(c, listeners[k]) /\ InSeq(c, listeners'[k])) =>
                      WaiterOf(call'[c]) =
                         [waiter |-> "pending", wval |-> Undefined,
                          resolves |-> 0, rejects |-> 0]
             /\ (call[c].waiter = "pending" /\ call'[c].waiter # "pending") =>
                   \E reply \in Replies : onmessage(call[c].key, reply)]_vars

\* The last message received for an id met no listener, and a one-shot waiter
\* without an expected value, registered for that id since, is pending.
C12_Witness ==
    \E c \in Callers :
       /\ call[c].op \in {"query", "queryAll"}
       /\ call[c].waiter = "pending"
       /\ logged[call[c].key] = "unheard"
       /\ listeners[call[c].key] = <<c>>

\* C13: at most one waiter is registered per id, and a reply is delivered to
\* the newest waiter of its id only.
C13_OneWaiterPerId ==
    [][\A k \in Keys :
          /\ Len(listeners'[k]) <= 1
          /\ \A reply \in Replies :
                onmessage(k, reply) =>
                   \A i \in 1 .. Len(listeners[k]) - 1 :
                      call'[listeners[k][i]] = call[listeners[k][i]]]_vars

\* The operations that send a message when they are called.
SendingOps ==
    {"query", "queryAll", "repeatQuery", "removeQuery", "bindToEvent"}

\* C14: a sending operation called while the connection is not open fails,
\* sends nothing and leaves no listener registered.
C14_NotOpenFailsWithoutWaiter ==
    [][\A c \in Callers :
          (/\ readyState # "OPEN"
           /\ ~Pending(call[c])
           /\ call'[c] # call[c]
           /\ call'[c].op \in SendingOps) =>
             /\ call'[c].pc = "failed"
             /\ call'[c].sent = <<>>
             /\ \A k \in Keys : ~InSeq(c, listeners'[k])]_vars

\* C15: a cleanUpRepeatingQueries awaits at most one stop at a time: it sends
\* one stop message as it starts, and each further one only in the step that
\* dispatches the "stopped" reply to the stop it awaits and deletes that
\* stop's id from the registry.
C15_CleanUpStopsSequential ==
    [][\A c \in Callers :
          LET w == call[c]
              v == call'[c]
          IN  v.op = "cleanUpRepeatingQueries" =>
                 /\ Cardinality({k \in Keys : InSeq(c, listeners'[k])}) <= 1
                 /\ (~Pending(w) /\ v # w) => Len(v.sent) <= 1
                 /\ (Pending(w) /\ v.sent # w.sent) =>
                       /\ w.waiter = "pending"
                       /\ \E reply \in Replies :
                             /\ payload(reply) = Str("stopped")
                             /\ onmessage(w.key, reply)
                       /\ v.sent = Append(w.sent, StopMessage(v.key))
                       /\ v.key # w.key
                       /\ ~InSeq(w.key, repeatingQueries')
                       /\ ~InSeq(c, listeners'[w.key])]_vars

\* A cleanUpRepeatingQueries awaits its second stop: the first id is deleted,
\* the second is not yet.
C15_Witness ==
    \E c \in Callers :
       /\ call[c].op = "cleanUpRepeatingQueries"
       /\ call[c].pc = "await"
       /\ Len(call[c].snap) = 2
       /\ call[c].sent = <<StopMessage(call[c].snap[1]),
                           StopMessage(call[c].snap[2])>>
       /\ ~InSeq(call[c].snap[1], repeatingQueries)
       /\ InSeq(call[c].snap[2], repeatingQueries)
       /\ InSeq(c, listeners[call[c].snap[2]])

\* C16: a listener is registered for a waiter exactly while the waiter is
\* unsettled, under the waiter's id and once.
C16_ListenerIffUnsettled ==
    \A c \in Callers, k \in Keys :
       /\ InSeq(c, listeners[k]) <=>
             (call[c].waiter = "pending" /\ call[c].key = k)
       /\ Cardinality({i \in 1 .. Len(listeners[k]) : listeners[k][i] = c}) <= 1

\* One waiter has been rejected and another resolved under the same id, whose
\* list of listeners is empty again.
C16_Witness ==
    /\ call[1].waiter = "rejected"
    /\ call[2].waiter = "resolved"
    /\ call[1].key = call[2].key
    /\ listeners[call[1].key] = <<>>

\* C17: an id leaves the repeating registry only in the step that dispatches
\* a "stopped" reply for it to a removeQuery (direct or of a cleanup) of that
\* id; the ids that stay keep their order; a removeQuery of an id that is not
\* registered changes nothing of the registry.
C17_RegistryRemovalOnlyOnStopped ==
    [][/\ \A id \in Names :
             (InSeq(id, repeatingQueries) /\ ~InSeq(id, repeatingQueries')) =>
                /\ repeatingQueries' = Without(repeatingQueries, id)
                /\ \E reply \in Replies :
                      /\ payload(reply) = Str("stopped")
                      /\ onmessage(id, reply)
                /\ \E c \in Callers :
                      /\ call[c].op \in {"removeQuery", "cleanUpRepeatingQueries"}
                      /\ call[c].id = id
                      /\ call[c].pc = "await"
                      /\ call[c].waiter = "pending"
                      /\ call[c].key = id
                      /\ call'[c].pc # "failed"
       /\ \A c \in Callers :
             LET id == call'[c].id
             IN  (/\ call'[c].op = "removeQuery"
                  /\ call'[c] # call[c]
                  /\ ~InSeq(id, repeatingQueries)) =>
                    repeatingQueries' = repeatingQueries]_vars

\* A removeQuery has completed on "stopped" and its id has left the registry,
\* where another id stays.
C17_Witness ==
    \E c \in Callers :
       /\ call[c].op = "removeQuery"
       /\ call[c].pc = "done"
       /\ call[c].wval = Str("stopped")
       /\ ~InSeq(call[c].id, repeatingQueries)
       /\ repeatingQueries # <<>>

\* C18: a repeatQuery that has failed for another reason than a duplicate id
\* has left its id out of the registry.
C18_FailedRepeatQueryNotRegistered ==
    \A c \in Callers :
       (/\ call[c].op = "repeatQuery"
        /\ call[c].pc = "failed"
        /\ call[c].error # "is already being used") =>
          ~InSeq(call[c].id, repeatingQueries)

\* C19: a reply received on the connection of the second helper, the first
\* helper's connection being closed, changes no call made through the first
\* helper.
C19_SessionsIsolated ==
    [][\A id \in Keys, reply \in Replies :
          (readyState # "OPEN" /\ onmessage2(id, reply)) =>
             /\ listeners' = listeners
             /\ \A c \in Callers : Progress(call'[c]) = Progress(call[c])]_vars

\* C20: once a removeQuery(id), or a cleanUpRepeatingQueries covering id, has
\* completed, no listener is registered for id.
C20_NoWaiterAfterRemoveQuery ==
    \A c \in Callers :
       /\ (call[c].op = "removeQuery" /\ call[c].pc = "done") =>
             listeners[call[c].id] = <<>>
       /\ (call[c].op = "cleanUpRepeatingQueries" /\ call[c].pc = "done") =>
             \A i \in 1 .. Len(call[c].snap) : listeners[call[c].snap[i]] = <<>>
====
